---- MODULE Spec2Model ----
(***************************************************************************)
(* Model of the scene-based recomposition pipeline of cyclips-export:      *)
(* Exporter.export (src/src/export.py) and the ffmpeg wrappers it calls    *)
(* (src/src/utils/video.py).                                               *)
(*                                                                         *)
(* Times are integer ticks, TicksPerSecond ticks to the second (the code   *)
(* uses Decimal seconds).  A frame period is 1/fps seconds, so             *)
(* "duration <= 1/fps" is modelled exactly as duration*fps <=              *)
(* TicksPerSecond.  Times read from JSON are binary doubles: FloatErr      *)
(* gives the sign of their representation error.                           *)
(*                                                                         *)
(* An external tool (ffprobe/ffmpeg) exits zero or non-zero; the choice is *)
(* nondeterministic, except that a tool whose input file does not exist    *)
(* can only exit non-zero.  A tool that exits non-zero writes no output.   *)
(***************************************************************************)
EXTENDS Integers, Naturals, Sequences, FiniteSets, TLC

\* ---- bounds of the model ----
MaxTime == 4
MaxScenes == 2
MaxDim == 10
MaxBatch == 2
CropSteps == 10
SceneLen == 2
TicksPerSecond == 10

FrameRates == {5, 10}
AspectRatios == {<<9, 16>>, <<16, 9>>, <<1, 1>>, <<4, 3>>}
SceneTypes == {"fill", "fit", "zoom"}
Subtitles == {"none", "font", "nofont"}

VARIABLES
    req,            \* arguments of export and the progress_callback of the Exporter
    pc,             \* position of the export call
    fps,            \* video_fps read by the prober (0 before)
    audio_path,     \* audio_path of export: a file, or None
    scenes,         \* filtered scenes (list returned by _get_scenes)
    scene_paths,    \* scene_paths of export
    task,           \* state of each scene task submitted to the pool
    taskError,      \* exception stored in each task's future ("none" if none)
    taskCalls,      \* external tool runs of each scene task
    completion,     \* scene indices in the order their tasks terminated
    playlist,       \* lines written to concat_list.txt
    dirs,           \* temporary directories that exist
    files,          \* files that exist
    created,        \* every intermediate file the call has created so far
    progress,       \* percentages passed to progress_callback
    stages,         \* stages started, in order
    calls,          \* external tool runs of the export thread
    outcome,        \* "running", "returned" or "raised"
    error,          \* exception raised to the caller ("none" if none)
    outputWritten,  \* the output file has been written at output_path
    fn,             \* one call of a pure function: its arguments and its result
    job,            \* input of process_batch_export: job['input']['batch']
    bpc,            \* position of process_batch_export
    entry,          \* the process_export call submitted for each batch entry
    observed,       \* entries whose future.result() was called
    result,         \* what process_batch_export returned or raised
    tmpOwner,       \* temporary directory name -> entry whose export made it (0: free)
    touched         \* who created, wrote in or removed a directory owned by whom

exportVars == <<req, pc, fps, audio_path, scenes, scene_paths, task, taskError,
                taskCalls, completion, playlist, dirs, files, created, progress,
                stages, calls, outcome, error, outputWritten>>

batchVars == <<job, bpc, entry, observed, result, tmpOwner, touched>>

otherVars == <<fn, batchVars>>

vars == <<exportVars, otherVars>>

None == [dir |-> "", name |-> ""]

\* ---- paths ----
ScratchDir == "scratch"
SystemTmp == "system_tmp"
SceneTmp(i) == "scene_tmp_" \o ToString(i)
Path(d, n) == [dir |-> d, name |-> n]

TrimmedClip == Path(ScratchDir, "trimmed_clip.mp4")
IntermediateClip == Path(ScratchDir, "intermediate_clip.mp4")
FinalTrimmed == Path(ScratchDir, "final_trimmed_clip.mp4")
AudioFile == Path(ScratchDir, "audio.aac")
ConcatList == Path(ScratchDir, "concat_list.txt")
ConcatenatedClip == Path(ScratchDir, "concatenated_clip.mp4")
Source == Path("source", "video")
ScenePathShared(i) == Path(ScratchDir, "scene.mp4")
ScenePath(i) == Path(ScratchDir, "scene_" \o ToString(i) \o ".mp4")
SegmentPath(i) == Path(SceneTmp(i), "segment.mp4")
FontFile == Path(SystemTmp, "font.ttf")

\* ---- pure helpers ----
Max(a, b) == IF a >= b THEN a ELSE b

\* tempfile.TemporaryDirectory.__exit__: the directory and its content go
TemporaryDirectoryExitLeak(d, ds) == ds
TemporaryDirectoryExit(d, ds) == ds \ {d}
FilesAfterExit(ds, fs) == {f \in fs : f.dir \in ds \/ f.dir = "source"}

\* line 53 of export: duration > min_frame_duration
NeedsAudioInclusive(duration, rate) == duration * rate >= TicksPerSecond
NeedsAudio(duration, rate) == duration * rate > TicksPerSecond

\* trim_video: the mode the duration selects
TrimModeStrict(start, end, rate) ==
    IF end - start <= 0 THEN "invalid"
    ELSE IF (end - start) * rate < TicksPerSecond THEN "freeze"
    ELSE "range"
TrimMode(start, end, rate) ==
    IF end - start <= 0 THEN "invalid"
    ELSE IF (end - start) * rate <= TicksPerSecond THEN "freeze"
    ELSE "range"

\* f"{x:.6f}" of a Decimal: x seconds written with six decimals, rounded
\* half to even; the result is counted in microseconds
Format6(x) ==
    LET n == x * 1000000
        q == n \div TicksPerSecond
        r == n % TicksPerSecond
    IN IF 2 * r < TicksPerSecond THEN q
       ELSE IF 2 * r > TicksPerSecond THEN q + 1
       ELSE IF q % 2 = 0 THEN q ELSE q + 1

\* trim_video: the ffmpeg command it builds (ss and t in microseconds, t = 0
\* when there is no -t, frames = 0 when there is no -frames:v)
TrimCommand(video, out, start, end, rate, no_audio) ==
    LET mode == TrimMode(start, end, rate) IN
    [tool |-> "trim", mode |-> mode, ss |-> Format6(start),
     t |-> IF mode = "range" THEN Format6(end - start) ELSE 0,
     frames |-> IF mode = "freeze" THEN 1 ELSE 0,
     an |-> (mode = "freeze" \/ no_audio),
     inputs |-> {video}, output |-> out]

\* The scenes document is JSON: its times are binary doubles.  A time of x
\* ticks in the document is the double nearest to x/TicksPerSecond; FloatErr
\* is the sign of (that double - x/TicksPerSecond).  Decimal(str(double))
\* gives x/TicksPerSecond back exactly.
RECURSIVE Pow2Mod(_, _)
Pow2Mod(k, q) == IF k = 0 THEN 1 % q ELSE (2 * Pow2Mod(k - 1, q)) % q

RECURSIVE ShiftUp(_, _)
ShiftUp(v, q) == IF v >= q THEN 0 ELSE 1 + ShiftUp(2 * v, q)

RECURSIVE ShiftDown(_, _)
ShiftDown(v, q) == IF 2 * q > v THEN 0 ELSE 1 + ShiftDown(v, 2 * q)

\* floor(log2(v/q)) for v > 0
Log2Floor(v, q) == IF v >= q THEN ShiftDown(v, q) ELSE 0 - ShiftUp(v, q)

\* sign of (the double nearest to x/q) - x/q
FloatErrQ(x, q) ==
    IF x <= 0 THEN 0
    ELSE LET k == 52 - Log2Floor(x, q)
             r == ((x % q) * Pow2Mod(k, q)) % q
         IN IF r = 0 THEN 0 ELSE IF 2 * r < q THEN 0 - 1 ELSE 1

FloatErr(x) == FloatErrQ(x, TicksPerSecond)

\* Python's round() of a double that stands for n/d (d > 0) and was computed
\* with an error of sign e: the nearest integer; a value that is exactly
\* half-way goes to the even neighbour, or, when the double is off the
\* half-way point, to the neighbour on the side of the error
Round(n, d, e) ==
    LET q == n \div d
        r == n % d
    IN IF 2 * r < d THEN {q}
       ELSE IF 2 * r > d THEN {q + 1}
       ELSE {IF q % 2 = 0 THEN q ELSE q + 1}
            \cup (IF e > 0 THEN {q + 1} ELSE IF e < 0 THEN {q} ELSE {})

\* round(x / 2) * 2 of apply_fill and apply_fit, x = n/d
EvenSizeNoHalving(n, d, e) == Round(n, d, e)
EvenSize(n, d, e) == {2 * m : m \in Round(n, 2 * d, e)}

\* apply_fit, lines 150-156: the target size before rounding, as fractions
FitTargetFlipped(video_width, video_height, aw, ah) ==
    IF video_width * ah < aw * video_height
    THEN [wn |-> video_height * aw, wd |-> ah, we |-> FloatErrQ(aw, ah),
          hn |-> video_height, hd |-> 1, he |-> 0]
    ELSE [wn |-> video_width, wd |-> 1, we |-> 0,
          hn |-> video_width * ah, hd |-> aw, he |-> FloatErrQ(ah, aw)]
FitTarget(video_width, video_height, aw, ah) ==
    IF video_width * ah > aw * video_height
    THEN [wn |-> video_height * aw, wd |-> ah, we |-> FloatErrQ(aw, ah),
          hn |-> video_height, hd |-> 1, he |-> 0]
    ELSE [wn |-> video_width, wd |-> 1, we |-> 0,
          hn |-> video_width * ah, hd |-> aw, he |-> FloatErrQ(ah, aw)]

\* line 194 of _get_scenes compares the double of the document with the
\* Decimal of the range; Python compares the two exact values
FloatLess(x, d) == x < d \/ (x = d /\ FloatErr(x) < 0)
FloatGreater(x, d) == x > d \/ (x = d /\ FloatErr(x) > 0)

\* _get_scenes
Overlaps(scene, start, end) ==
    ~(FloatLess(scene.end_time, start) \/ FloatGreater(scene.start_time, end))

GetScenesNoClamp(start, end, doc, reset) ==
    LET filtered == SelectSeq(doc, LAMBDA s : Overlaps(s, start, end))
        n == Len(filtered)
        rebased == [k \in 1..n |->
            [filtered[k] EXCEPT
                !.start_time = IF k = 1 THEN 0 ELSE @ - start,
                !.end_time = IF k = n THEN end - start ELSE @ - start]]
    IN IF reset /\ n > 0 THEN rebased ELSE filtered
GetScenes(start, end, doc, reset) ==
    LET filtered == SelectSeq(doc, LAMBDA s : Overlaps(s, start, end))
        n == Len(filtered)
        rebased == [k \in 1..n |->
            [filtered[k] EXCEPT
                !.start_time = IF k = 1 THEN 0 ELSE Max(@ - start, 0),
                !.end_time = IF k = n THEN end - start ELSE Max(@ - start, 0)]]
    IN IF reset /\ n > 0 THEN rebased ELSE filtered

\* lines 61 and 77-79 of export: the play-list is written from scene_paths
PlayListByCompletion(paths, done) == [k \in 1..Len(done) |-> paths[done[k]]]
PlayList(paths, done) == paths

\* _update_progress
UpdateProgress(log, p) == IF req.callback THEN Append(log, p) ELSE log

\* the checkpoints export reports
CheckpointRepeated(stage) ==
    CASE stage = "Trim" -> 10
      [] stage = "ExtractAudio" -> 20
      [] stage = "LoadScenes" -> 30
      [] stage = "Concatenate" -> 50
      [] stage = "ReTrim" -> 50
      [] stage = "AttachSubtitles" -> 90
      [] stage = "Deliver" -> 100
Checkpoint(stage) ==
    CASE stage = "Trim" -> 10
      [] stage = "ExtractAudio" -> 20
      [] stage = "LoadScenes" -> 30
      [] stage = "Concatenate" -> 50
      [] stage = "ReTrim" -> 70
      [] stage = "AttachSubtitles" -> 90
      [] stage = "Deliver" -> 100

\* control flow of export: the position after each step
SuccessorAttachFirst(p, audio, subs) ==
    CASE p = "probe" -> "trim"
      [] p = "trim" -> IF audio THEN "extract" ELSE "load"
      [] p = "extract" -> "load"
      [] p = "load" -> "pool"
      [] p = "pool" -> "concat"
      [] p = "concat" -> "attach"
      [] p = "attach" -> "retrim"
      [] p = "retrim" -> IF subs THEN "subs" ELSE "deliver"
      [] p = "subs" -> "deliver"
      [] p = "deliver" -> "done"
Successor(p, audio, subs) ==
    CASE p = "probe" -> "trim"
      [] p = "trim" -> IF audio THEN "extract" ELSE "load"
      [] p = "extract" -> "load"
      [] p = "load" -> "pool"
      [] p = "pool" -> "concat"
      [] p = "concat" -> "retrim"
      [] p = "retrim" -> "attach"
      [] p = "attach" -> IF subs THEN "subs" ELSE "deliver"
      [] p = "subs" -> "deliver"
      [] p = "deliver" -> "done"

HasSubs == req.subtitles # "none"
HasAudio == audio_path # None
Step(p) == Successor(p, HasAudio, HasSubs)

\* exit codes a tool run can produce
ToolOutcomes(inputs) ==
    IF \A f \in inputs : f \in files \/ f = Source THEN {TRUE, FALSE} ELSE {FALSE}

Ran(cmd, ok) == [cmd |-> cmd, exit |-> IF ok THEN 0 ELSE 1]

\* ---- the scenes documents and requests explored ----
SceneDocs ==
    UNION { { [k \in 1..n |-> [start_time |-> (k - 1) * SceneLen,
                               end_time |-> k * SceneLen,
                               type |-> ty[k]]] : ty \in [1..n -> SceneTypes] }
            : n \in 0..MaxScenes }

Requests ==
    [start : 0..MaxTime, end : 0..MaxTime, scenes : SceneDocs,
     subtitles : Subtitles, callback : BOOLEAN]

\* no pure function is being called
FnIdle == fn = [op |-> "none"]

\* names tempfile.mkdtemp can give a directory: one more than the exports
\* that can be alive at once
TempNames == 1..(MaxBatch + 1)

\* no batch is being processed
BatchIdle ==
    /\ job = <<>>
    /\ bpc = "idle"
    /\ entry = <<>>
    /\ observed = {}
    /\ result = "none"
    /\ tmpOwner = [d \in TempNames |-> 0]
    /\ touched = {}

\* the variables of an export before its first step
ExportFresh ==
    /\ fps = 0
    /\ audio_path = None
    /\ scenes = <<>>
    /\ scene_paths = <<>>
    /\ task = <<>>
    /\ taskError = <<>>
    /\ taskCalls = <<>>
    /\ completion = <<>>
    /\ playlist = <<>>
    /\ dirs = {}
    /\ files = {}
    /\ created = {}
    /\ progress = <<>>
    /\ stages = <<>>
    /\ calls = <<>>
    /\ outcome = "running"
    /\ error = "none"
    /\ outputWritten = FALSE

\* no export is running
ExportIdle ==
    /\ req = [start |-> 0, end |-> 0, scenes |-> <<>>, subtitles |-> "none",
              callback |-> FALSE]
    /\ pc = "idle"
    /\ ExportFresh

Init ==
    /\ req \in Requests
    /\ pc = "probe"
    /\ ExportFresh
    /\ FnIdle
    /\ BatchIdle

\* an exception leaves the with-block of export: the scratch directory goes
\* and the exception reaches the caller
Raise(e, ds) ==
    /\ outcome' = "raised"
    /\ error' = e
    /\ pc' = "done"
    /\ dirs' = TemporaryDirectoryExit(ScratchDir, ds)
    /\ files' = FilesAfterExit(TemporaryDirectoryExit(ScratchDir, ds), files)

\* lines 31-36: create the scratch directory, probe the source
Probe ==
    /\ pc = "probe"
    /\ \/ /\ \E rate \in FrameRates : fps' = rate
          /\ pc' = Step("probe")
          /\ dirs' = dirs \cup {ScratchDir}
          /\ UNCHANGED <<files, outcome, error>>
       \/ /\ Raise("CalledProcessError", dirs \cup {ScratchDir})
          /\ UNCHANGED fps
    /\ UNCHANGED otherVars
    /\ UNCHANGED <<req, audio_path, scenes, scene_paths, task, taskError,
                   taskCalls, completion, playlist, created, progress,
                   stages, calls, outputWritten>>

\* lines 42-53: report 10, trim the source, decide on the audio path
Trim ==
    /\ pc = "trim"
    /\ progress' = UpdateProgress(progress, Checkpoint("Trim"))
    /\ stages' = Append(stages, "Trim")
    /\ LET cmd == TrimCommand(Source, TrimmedClip, req.start, req.end, fps, FALSE)
           audio == IF NeedsAudio(req.end - req.start, fps) THEN AudioFile ELSE None
       IN IF cmd.mode = "invalid"
          THEN /\ Raise("ValueError", dirs)
               /\ UNCHANGED <<audio_path, created, calls>>
          ELSE \E ok \in ToolOutcomes(cmd.inputs) :
               /\ calls' = Append(calls, Ran(cmd, ok))
               /\ files' = IF ok THEN files \cup {TrimmedClip} ELSE files
               /\ created' = IF ok THEN created \cup {TrimmedClip} ELSE created
               /\ audio_path' = audio
               /\ pc' = Successor("trim", audio # None, HasSubs)
               /\ UNCHANGED <<dirs, outcome, error>>
    /\ UNCHANGED otherVars
    /\ UNCHANGED <<req, fps, scenes, scene_paths, task, taskError, taskCalls,
                   completion, playlist, outputWritten>>

\* lines 54-56: report 20, extract the audio of the trimmed clip
ExtractAudio ==
    /\ pc = "extract"
    /\ progress' = UpdateProgress(progress, Checkpoint("ExtractAudio"))
    /\ stages' = Append(stages, "ExtractAudio")
    /\ LET cmd == [tool |-> "extract_audio", inputs |-> {TrimmedClip},
                   output |-> audio_path]
       IN \E ok \in ToolOutcomes(cmd.inputs) :
          /\ calls' = Append(calls, Ran(cmd, ok))
          /\ files' = IF ok THEN files \cup {audio_path} ELSE files
          /\ created' = IF ok THEN created \cup {audio_path} ELSE created
    /\ pc' = Step("extract")
    /\ UNCHANGED otherVars
    /\ UNCHANGED <<req, fps, audio_path, scenes, scene_paths, task, taskError,
                   taskCalls, completion, playlist, dirs, outcome, error,
                   outputWritten>>

\* lines 58-72: report 30, load and filter the scenes, submit one task a scene
LoadScenes ==
    /\ pc = "load"
    /\ progress' = UpdateProgress(progress, Checkpoint("LoadScenes"))
    /\ stages' = stages \o <<"LoadScenes", "TransformScenes">>
    /\ LET sel == GetScenes(req.start, req.end, req.scenes, FALSE) IN
       /\ scenes' = sel
       /\ scene_paths' = [k \in 1..Len(sel) |-> ScenePath(k - 1)]
       /\ task' = [k \in 1..Len(sel) |-> "queued"]
       /\ taskError' = [k \in 1..Len(sel) |-> "none"]
       /\ taskCalls' = [k \in 1..Len(sel) |-> <<>>]
    /\ pc' = Step("load")
    /\ UNCHANGED otherVars
    /\ UNCHANGED <<req, fps, audio_path, completion, playlist, dirs, files,
                   created, calls, outcome, error, outputWritten>>

\* _create_scene, lines 119-131: own temporary directory, trim the segment
TaskTrim(i) ==
    /\ pc = "pool"
    /\ task[i] = "queued"
    /\ LET cmd == TrimCommand(Source, SegmentPath(i - 1), scenes[i].start_time,
                              scenes[i].end_time, fps, TRUE)
       IN IF cmd.mode = "invalid"
          THEN /\ task' = [task EXCEPT ![i] = "raised"]
               /\ taskError' = [taskError EXCEPT ![i] = "ValueError"]
               /\ completion' = Append(completion, i)
               /\ UNCHANGED <<taskCalls, dirs, files, created>>
          ELSE \E ok \in ToolOutcomes(cmd.inputs) :
               /\ task' = [task EXCEPT ![i] = "trimmed"]
               /\ taskCalls' = [taskCalls EXCEPT ![i] = Append(@, Ran(cmd, ok))]
               /\ dirs' = dirs \cup {SceneTmp(i - 1)}
               /\ files' = IF ok THEN files \cup {cmd.output} ELSE files
               /\ created' = IF ok THEN created \cup {cmd.output} ELSE created
               /\ UNCHANGED <<taskError, completion>>
    /\ UNCHANGED otherVars
    /\ UNCHANGED <<req, pc, fps, audio_path, scenes, scene_paths, playlist,
                   progress, stages, calls, outcome, error, outputWritten>>

\* _create_scene, lines 133-151: transform by type, or raise on an unknown type
TaskTransform(i) ==
    /\ pc = "pool"
    /\ task[i] = "trimmed"
    /\ completion' = Append(completion, i)
    /\ dirs' = TemporaryDirectoryExit(SceneTmp(i - 1), dirs)
    /\ IF scenes[i].type \in {"fill", "fit"}
       THEN LET cmd == [tool |-> "apply_" \o scenes[i].type,
                        inputs |-> {SegmentPath(i - 1)},
                        output |-> scene_paths[i]]
            IN \E ok \in ToolOutcomes(cmd.inputs) :
               /\ task' = [task EXCEPT ![i] = "done"]
               /\ taskCalls' = [taskCalls EXCEPT ![i] = Append(@, Ran(cmd, ok))]
               /\ files' = FilesAfterExit(dirs',
                              IF ok THEN files \cup {cmd.output} ELSE files)
               /\ created' = IF ok THEN created \cup {cmd.output} ELSE created
               /\ UNCHANGED taskError
       ELSE /\ task' = [task EXCEPT ![i] = "raised"]
            /\ taskError' = [taskError EXCEPT ![i] = "UnknownSceneType"]
            /\ files' = FilesAfterExit(dirs', files)
            /\ UNCHANGED <<taskCalls, created>>
    /\ UNCHANGED otherVars
    /\ UNCHANGED <<req, pc, fps, audio_path, scenes, scene_paths, playlist,
                   progress, stages, calls, outcome, error, outputWritten>>

\* ThreadPoolExecutor.__exit__ (line 62): shutdown(wait=True) returns once
\* every submitted task has returned or raised
PoolJoinedNoWait(t) == TRUE
PoolJoined(t) == \A i \in DOMAIN t : t[i] \in {"done", "raised"}

\* lines 62-72: leaving the executor's with-block waits for every task; the
\* iterator returned by executor.map is dropped, so no stored exception is
\* ever re-raised
PoolExit ==
    /\ pc = "pool"
    /\ PoolJoined(task)
    /\ pc' = Step("pool")
    /\ UNCHANGED otherVars
    /\ UNCHANGED <<req, fps, audio_path, scenes, scene_paths, task, taskError,
                   taskCalls, completion, playlist, dirs, files, created,
                   progress, stages, calls, outcome, error, outputWritten>>

\* ffmpeg's concat demuxer needs the first listed file to start a stream
ConcatOutcomes(list) ==
    IF list # <<>> /\ list[1] \in files THEN {TRUE, FALSE} ELSE {FALSE}

\* lines 74-82 and _concatenate_videos: report 50, write the play-list, join
Concatenate ==
    /\ pc = "concat"
    /\ progress' = UpdateProgress(progress, Checkpoint("Concatenate"))
    /\ stages' = Append(stages, "Concatenate")
    /\ playlist' = PlayList(scene_paths, completion)
    /\ LET cmd == [tool |-> "concat", inputs |-> {ConcatList},
                   output |-> ConcatenatedClip]
       IN \E ok \in ConcatOutcomes(playlist') :
          /\ calls' = Append(calls, Ran(cmd, ok))
          /\ files' = files \cup {ConcatList}
                        \cup (IF ok THEN {ConcatenatedClip} ELSE {})
          /\ created' = created \cup {ConcatList}
                        \cup (IF ok THEN {ConcatenatedClip} ELSE {})
    /\ pc' = Step("concat")
    /\ UNCHANGED otherVars
    /\ UNCHANGED <<req, fps, audio_path, scenes, scene_paths, task, taskError,
                   taskCalls, completion, dirs, outcome, error, outputWritten>>

\* lines 84-92: report 70, trim the concatenated clip
ReTrim ==
    /\ pc = "retrim"
    /\ progress' = UpdateProgress(progress, Checkpoint("ReTrim"))
    /\ stages' = Append(stages, "ReTrim")
    /\ IF scenes = <<>>
       THEN /\ Raise("IndexError", dirs)
            /\ UNCHANGED <<created, calls>>
       ELSE LET cmd == TrimCommand(ConcatenatedClip, IntermediateClip,
                                   Max(req.start - scenes[1].start_time, 0),
                                   req.end, fps, FALSE)
            IN IF cmd.mode = "invalid"
               THEN /\ Raise("ValueError", dirs)
                    /\ UNCHANGED <<created, calls>>
               ELSE \E ok \in ToolOutcomes(cmd.inputs) :
                    /\ calls' = Append(calls, Ran(cmd, ok))
                    /\ files' = IF ok THEN files \cup {IntermediateClip} ELSE files
                    /\ created' = IF ok THEN created \cup {IntermediateClip}
                                  ELSE created
                    /\ pc' = Step("retrim")
                    /\ UNCHANGED <<dirs, outcome, error>>
    /\ UNCHANGED otherVars
    /\ UNCHANGED <<req, fps, audio_path, scenes, scene_paths, task, taskError,
                   taskCalls, completion, playlist, outputWritten>>

\* lines 94-99 and attach_audio: an audio_path of None makes subprocess.run
\* raise TypeError, which attach_audio does not catch
AttachAudio ==
    /\ pc = "attach"
    /\ stages' = Append(stages, "AttachAudio")
    /\ IF audio_path = None
       THEN /\ Raise("TypeError", dirs)
            /\ UNCHANGED <<created, calls>>
       ELSE LET cmd == [tool |-> "attach_audio",
                        inputs |-> {IntermediateClip, audio_path},
                        output |-> FinalTrimmed]
            IN \E ok \in ToolOutcomes(cmd.inputs) :
               /\ calls' = Append(calls, Ran(cmd, ok))
               /\ files' = IF ok THEN files \cup {FinalTrimmed} ELSE files
               /\ created' = IF ok THEN created \cup {FinalTrimmed} ELSE created
               /\ pc' = Step("attach")
               /\ UNCHANGED <<dirs, outcome, error>>
    /\ UNCHANGED otherVars
    /\ UNCHANGED <<req, fps, audio_path, scenes, scene_paths, task, taskError,
                   taskCalls, completion, playlist, progress, outputWritten>>

\* lines 101-103 and attach_subtitles: report 90, burn the subtitles in;
\* attach_subtitles catches CalledProcessError and ValueError and returns
AttachSubtitles ==
    /\ pc = "subs"
    /\ progress' = UpdateProgress(progress, Checkpoint("AttachSubtitles"))
    /\ stages' = Append(stages, "AttachSubtitles")
    /\ IF req.subtitles = "nofont"
       THEN UNCHANGED <<created, calls, outputWritten>>
       ELSE LET cmd == [tool |-> "subtitles", inputs |-> {FinalTrimmed},
                        output |-> Path("destination", "output")]
            IN \E ok \in ToolOutcomes(cmd.inputs) :
               /\ calls' = Append(calls, Ran(cmd, ok))
               /\ created' = created \cup {FontFile}
               /\ outputWritten' = ok
    /\ pc' = Step("subs")
    /\ UNCHANGED otherVars
    /\ UNCHANGED <<req, fps, audio_path, scenes, scene_paths, task, taskError,
                   taskCalls, completion, playlist, dirs, files, outcome, error>>

\* lines 104-107: without subtitles copy the final clip to output_path; then
\* leave the with-block, report 100 and return
Deliver ==
    /\ pc = "deliver"
    /\ stages' = Append(stages, "Deliver")
    /\ IF ~HasSubs /\ FinalTrimmed \notin files
       THEN /\ Raise("FileNotFoundError", dirs)
            /\ UNCHANGED <<progress, outputWritten>>
       ELSE /\ outputWritten' = (IF HasSubs THEN outputWritten ELSE TRUE)
            /\ dirs' = TemporaryDirectoryExit(ScratchDir, dirs)
            /\ files' = FilesAfterExit(dirs', files)
            /\ progress' = UpdateProgress(progress, Checkpoint("Deliver"))
            /\ outcome' = "returned"
            /\ pc' = Step("deliver")
            /\ UNCHANGED error
    /\ UNCHANGED otherVars
    /\ UNCHANGED <<req, fps, audio_path, scenes, scene_paths, task, taskError,
                   taskCalls, completion, playlist, created, calls>>

Next ==
    \/ Probe
    \/ Trim
    \/ ExtractAudio
    \/ LoadScenes
    \/ \E i \in DOMAIN task : TaskTrim(i)
    \/ \E i \in DOMAIN task : TaskTransform(i)
    \/ PoolExit
    \/ Concatenate
    \/ ReTrim
    \/ AttachAudio
    \/ AttachSubtitles
    \/ Deliver

Spec == Init /\ [][Next]_vars

\* ---- single calls of the pure parts: trim_video, _get_scenes, apply_fill,
\* ---- apply_fit ----

\* arguments of trim_video (the paths do not matter to the command's shape)
TrimCalls ==
    [op : {"trim_video"}, state : {"called"}, start : 0..MaxTime,
     end : 0..MaxTime, fps : FrameRates, no_audio : BOOLEAN]

\* trim_video, lines 64-110: raise on an empty range before any tool runs,
\* else run the command once; a non-zero exit is caught and printed
CallTrim ==
    /\ fn.op = "trim_video"
    /\ fn.state = "called"
    /\ LET cmd == TrimCommand(Source, TrimmedClip, fn.start, fn.end, fn.fps,
                              fn.no_audio)
           base == [op |-> fn.op, state |-> "done", start |-> fn.start,
                    end |-> fn.end, fps |-> fn.fps, no_audio |-> fn.no_audio]
       IN IF cmd.mode = "invalid"
          THEN fn' = base @@ [raised |-> "ValueError", ran |-> <<>>]
          ELSE \E ok \in BOOLEAN :
               fn' = base @@ [raised |-> "none", ran |-> <<Ran(cmd, ok)>>]
    /\ UNCHANGED <<exportVars, batchVars>>

\* scenes documents with any boundaries (the code does not require them
\* sorted or disjoint)
FreeScenes ==
    {sc \in [start_time : 0..MaxTime, end_time : 0..MaxTime, type : {"fill"}] :
        sc.start_time <= sc.end_time}
FreeDocs == UNION {[1..n -> FreeScenes] : n \in 0..MaxScenes}

\* arguments of _get_scenes; callers pass a range with start < end
\* (rp_handler.py:119, 163; trim_video raises before otherwise)
GetScenesCalls ==
    {c \in [op : {"_get_scenes"}, state : {"called"}, start : 0..MaxTime,
            end : 0..MaxTime, doc : FreeDocs, reset : BOOLEAN] :
        c.start < c.end}

\* _get_scenes, lines 188-213
CallGetScenes ==
    /\ fn.op = "_get_scenes"
    /\ fn.state = "called"
    /\ fn' = [fn EXCEPT !.state = "done"]
              @@ [result |-> GetScenes(fn.start, fn.end, fn.doc, fn.reset)]
    /\ UNCHANGED <<exportVars, batchVars>>

\* arguments of apply_fill: the crop size is crop/CropSteps of the frame
FillCalls ==
    [op : {"apply_fill"}, state : {"called"}, crop_width : 0..CropSteps,
     crop_height : 0..CropSteps, video_width : 1..MaxDim, video_height : 1..MaxDim]

\* apply_fill, lines 192-223: the crop size in pixels, rounded to even, goes
\* into the command; a non-zero exit is caught and printed
CallFill ==
    /\ fn.op = "apply_fill"
    /\ fn.state = "called"
    /\ \E ow \in EvenSize(fn.crop_width * fn.video_width, CropSteps,
                           FloatErrQ(fn.crop_width, CropSteps)),
          oh \in EvenSize(fn.crop_height * fn.video_height, CropSteps,
                           FloatErrQ(fn.crop_height, CropSteps)),
          ok \in BOOLEAN :
          fn' = [fn EXCEPT !.state = "done"]
                @@ [ran |-> <<Ran([tool |-> "apply_fill", w |-> ow, h |-> oh], ok)>>]
    /\ UNCHANGED <<exportVars, batchVars>>

\* arguments of apply_fit
FitCalls ==
    [op : {"apply_fit"}, state : {"called"}, video_width : 1..MaxDim,
     video_height : 1..MaxDim, aspect_ratio : AspectRatios]

\* apply_fit, lines 150-185
CallFit ==
    /\ fn.op = "apply_fit"
    /\ fn.state = "called"
    /\ LET tg == FitTarget(fn.video_width, fn.video_height,
                           fn.aspect_ratio[1], fn.aspect_ratio[2])
       IN \E ow \in EvenSize(tg.wn, tg.wd, tg.we),
             oh \in EvenSize(tg.hn, tg.hd, tg.he),
             ok \in BOOLEAN :
             fn' = [fn EXCEPT !.state = "done"]
                   @@ [ran |-> <<Ran([tool |-> "apply_fit", w |-> ow, h |-> oh], ok)>>]
    /\ UNCHANGED <<exportVars, batchVars>>

FnCalls == TrimCalls \cup GetScenesCalls \cup FillCalls \cup FitCalls

FnInit ==
    /\ ExportIdle
    /\ BatchIdle
    /\ fn \in FnCalls

FnNext ==
    \/ CallTrim
    \/ CallGetScenes
    \/ CallFill
    \/ CallFit

FnSpec == FnInit /\ [][FnNext]_vars


\* ---- process_batch_export: one export per batch entry, in a thread pool ----
BatchTimes == {0, 1}
BatchSubtitles == {"none", "b64", "notb64"}

\* batch entries after schema validation; destination_url "" is a missing one
BatchEntries ==
    [destination_url : {"", "dest"}, start : BatchTimes, end : BatchTimes,
     subtitles : BatchSubtitles]
BatchJobs == UNION {[1..n -> BatchEntries] : n \in 0..MaxBatch}

\* is_valid_base64: an absent value passes
is_valid_base64(data) == data # "notb64"

\* lines 160-166: the first complaint about the batch, "" if none
EntryComplaint(e) ==
    IF e.destination_url = "" THEN "destination_url"
    ELSE IF e.start >= e.end THEN "time range"
    ELSE IF e.subtitles # "none" /\ ~is_valid_base64(e.subtitles) THEN "base64"
    ELSE ""
BatchComplaintFirstOnly(b) ==
    IF b = <<>> THEN "batch" ELSE EntryComplaint(b[1])
BatchComplaint(b) ==
    IF b = <<>> THEN "batch"
    ELSE IF \A k \in DOMAIN b : EntryComplaint(b[k]) = "" THEN ""
    ELSE EntryComplaint(b[CHOOSE k \in DOMAIN b :
                            /\ EntryComplaint(b[k]) # ""
                            /\ \A m \in 1..(k - 1) : EntryComplaint(b[m]) = ""])

\* tempfile.mkdtemp: a name under which no directory exists yet
MkdTempAnyName(owner) == DOMAIN owner
MkdTemp(owner) == {d \in DOMAIN owner : owner[d] = 0}

\* a constructor call returns an object of its own: the instance of class c
\* constructed in the process_export call of entry i
NoObject == [class |-> "", call |-> 0]
NewObject(c, i) == [class |-> c, call |-> i]

Terminated(e) == e.pc \in {"done", "raised"}

\* lines 153-166: validation of the whole batch, before anything is submitted
BatchValidate ==
    /\ bpc = "validate"
    /\ IF BatchComplaint(job) # ""
       THEN /\ bpc' = "returned"
            /\ result' = "error: " \o BatchComplaint(job)
       ELSE /\ bpc' = "submit"
            /\ result' = result
    /\ UNCHANGED <<job, entry, observed, tmpOwner, touched>>
    /\ UNCHANGED <<exportVars, fn>>

\* lines 169-182: one future per entry
BatchSubmit ==
    /\ bpc = "submit"
    /\ entry' = [k \in DOMAIN job |->
                   [pc |-> "queued", exporter |-> NoObject, pool |-> NoObject,
                    scratch |-> 0,
                    failing |-> FALSE]]
    /\ bpc' = "collect"
    /\ UNCHANGED <<job, observed, result, tmpOwner, touched>>
    /\ UNCHANGED <<exportVars, fn>>

\* process_export lines 63-67: the subtitles go to a file of their own and the
\* scenes document is downloaded; the download may raise
EntryDownload(i) ==
    /\ bpc \in {"collect", "shutdown"}
    /\ entry[i].pc = "queued"
    /\ \E ok \in BOOLEAN :
         entry' = [entry EXCEPT ![i].pc = IF ok THEN "downloaded" ELSE "raised"]
    /\ UNCHANGED <<job, bpc, observed, result, tmpOwner, touched>>
    /\ UNCHANGED <<exportVars, fn>>

\* process_export line 72 and export.py line 31: a new Exporter, whose export
\* makes its scratch directory
EntryEnterExport(i) ==
    /\ bpc \in {"collect", "shutdown"}
    /\ entry[i].pc = "downloaded"
    /\ \E d \in MkdTemp(tmpOwner) :
         /\ entry' = [entry EXCEPT ![i].pc = "exporting",
                                   ![i].exporter = NewObject("Exporter", i),
                                   ![i].scratch = d]
         /\ touched' = touched \cup
                {[by |-> i, owner |-> IF tmpOwner[d] = 0 THEN i ELSE tmpOwner[d]]}
         /\ tmpOwner' = [tmpOwner EXCEPT ![d] = IF @ = 0 THEN i ELSE @]
    /\ UNCHANGED <<job, bpc, observed, result>>
    /\ UNCHANGED <<exportVars, fn>>

\* export.py lines 32-105: the stages write in the scratch directory; the scene
\* tasks run in a pool made at line 62 and each keeps its segment in a
\* temporary directory it makes and removes (line 122); the export may raise
EntryRender(i) ==
    /\ bpc \in {"collect", "shutdown"}
    /\ entry[i].pc = "exporting"
    /\ \E ok \in BOOLEAN :
         entry' = [entry EXCEPT ![i].pc = "rendered",
                                ![i].pool = NewObject("ThreadPoolExecutor", i),
                                ![i].failing = ~ok]
    /\ \E d \in MkdTemp(tmpOwner) :
         touched' = touched \cup
            {[by |-> i, owner |-> tmpOwner[entry[i].scratch]],
             [by |-> i, owner |-> IF tmpOwner[d] = 0 THEN i ELSE tmpOwner[d]]}
    /\ UNCHANGED <<job, bpc, observed, result, tmpOwner>>
    /\ UNCHANGED <<exportVars, fn>>

\* export.py line 31, leaving the with-block: the scratch directory is removed,
\* on return and on an exception
EntryLeaveExport(i) ==
    /\ bpc \in {"collect", "shutdown"}
    /\ entry[i].pc = "rendered"
    /\ entry' = [entry EXCEPT ![i].pc = IF entry[i].failing THEN "raised" ELSE "exported"]
    /\ touched' = touched \cup {[by |-> i, owner |-> tmpOwner[entry[i].scratch]]}
    /\ tmpOwner' = [tmpOwner EXCEPT ![entry[i].scratch] = 0]
    /\ UNCHANGED <<job, bpc, observed, result>>
    /\ UNCHANGED <<exportVars, fn>>

\* process_export line 81: upload_file, which may raise
EntryUpload(i) ==
    /\ bpc \in {"collect", "shutdown"}
    /\ entry[i].pc = "exported"
    /\ \E ok \in BOOLEAN :
         entry' = [entry EXCEPT ![i].pc = IF ok THEN "done" ELSE "raised"]
    /\ UNCHANGED <<job, bpc, observed, result, tmpOwner, touched>>
    /\ UNCHANGED <<exportVars, fn>>

\* lines 183-184: future.result() of the next future, in submission order; it
\* blocks until that entry has terminated and re-raises what the entry raised
BatchCollect ==
    /\ bpc = "collect"
    /\ \E k \in DOMAIN entry :
         /\ k \notin observed
         /\ \A m \in 1..(k - 1) : m \in observed
         /\ Terminated(entry[k])
         /\ observed' = observed \cup {k}
         /\ bpc' = IF entry[k].pc = "raised" THEN "shutdown"
                   ELSE IF k = Len(entry) THEN "cleanup" ELSE "collect"
    /\ UNCHANGED <<job, entry, result, tmpOwner, touched>>
    /\ UNCHANGED <<exportVars, fn>>

\* line 169, leaving the with-block while the exception travels: the pool is
\* shut down with wait=True, then process_batch_export raises
BatchShutdown ==
    /\ bpc = "shutdown"
    /\ \A k \in DOMAIN entry : Terminated(entry[k])
    /\ bpc' = "raised"
    /\ result' = "raised"
    /\ UNCHANGED <<job, entry, observed, tmpOwner, touched>>
    /\ UNCHANGED <<exportVars, fn>>

\* lines 186-189
BatchReturn ==
    /\ bpc = "cleanup"
    /\ bpc' = "returned"
    /\ result' = "completed"
    /\ UNCHANGED <<job, entry, observed, tmpOwner, touched>>
    /\ UNCHANGED <<exportVars, fn>>

BatchInit ==
    /\ ExportIdle
    /\ FnIdle
    /\ job \in BatchJobs
    /\ bpc = "validate"
    /\ entry = <<>>
    /\ observed = {}
    /\ result = "none"
    /\ tmpOwner = [d \in TempNames |-> 0]
    /\ touched = {}

BatchNext ==
    \/ BatchValidate
    \/ BatchSubmit
    \/ \E i \in DOMAIN entry : EntryDownload(i)
    \/ \E i \in DOMAIN entry : EntryEnterExport(i)
    \/ \E i \in DOMAIN entry : EntryRender(i)
    \/ \E i \in DOMAIN entry : EntryLeaveExport(i)
    \/ \E i \in DOMAIN entry : EntryUpload(i)
    \/ BatchCollect
    \/ BatchShutdown
    \/ BatchReturn

BatchSpec == BatchInit /\ [][BatchNext]_vars

\* ---- vocabulary of the properties ----
Started(s) == \E k \in 1..Len(stages) : stages[k] = s
Count(s) == Cardinality({k \in 1..Len(stages) : stages[k] = s})
StageOrder == <<"Trim", "ExtractAudio", "LoadScenes", "TransformScenes",
                "Concatenate", "ReTrim", "AttachAudio", "AttachSubtitles",
                "Deliver">>
OptionalStages == {"ExtractAudio", "ReTrim", "AttachSubtitles"}
Idx(s) == CHOOSE k \in 1..Len(StageOrder) : StageOrder[k] = s
Checkpoints == {10, 20, 30, 50, 70, 90, 100}
TaskFailed(i) ==
    \/ taskError[i] # "none"
    \/ \E k \in 1..Len(taskCalls[i]) : taskCalls[i][k].exit # 0
Duration == req.end - req.start

\* C1: once the Concatenate stage has started, the play-list is exactly
\* scene_0, scene_1, ..., scene_{n-1} in original index order, each once,
\* whatever the order in which the scene tasks completed.
C1_PlaylistInIndexOrder ==
    Started("Concatenate") =>
        playlist = [k \in 1..Len(scenes) |-> ScenePath(k - 1)]

C1_Witness ==
    /\ Started("Concatenate")
    /\ Len(scenes) >= 2
    /\ completion[1] > completion[2]

\* C2: if a scene task has failed, the export never starts Concatenate and,
\* once terminated, has raised a failure to the caller.
C2_TaskFailureAborts ==
    (\E i \in DOMAIN task : TaskFailed(i)) =>
        /\ ~Started("Concatenate")
        /\ (pc = "done" => outcome = "raised")

\* C3: if a selected scene has a type other than fill or fit, the terminated
\* export has raised the unsupported-scene-type failure and has written
\* nothing at the destination.
C3_UnknownTypeAborts ==
    (pc = "done" /\ \E i \in DOMAIN scenes : scenes[i].type \notin {"fill", "fit"}) =>
        /\ outcome = "raised"
        /\ error = "UnknownSceneType"
        /\ ~outputWritten

\* C4: a non-zero tool exit is fatal: no tool of the export runs after a
\* tool that exited non-zero, and no stage after the fan-out starts once a
\* tool of a scene task exited non-zero.
C4_NonZeroExitIsFatal ==
    /\ \A k \in 1..Len(calls) : calls[k].exit # 0 => k = Len(calls)
    /\ \A k \in 1..Len(calls) : calls[k].exit # 0 => pc = "done" /\ outcome = "raised"
    /\ \A i \in DOMAIN taskCalls : \A k \in 1..Len(taskCalls[i]) :
          taskCalls[i][k].exit # 0 => ~Started("Concatenate")

\* C5: a call of export that returns normally has written the output file.
C5_ReturnImpliesOutput ==
    outcome = "returned" => outputWritten

\* C6: once export has returned or raised, its scratch directory and every
\* file in it are gone.
C6_ScratchDestroyed ==
    outcome # "running" =>
        /\ ScratchDir \notin dirs
        /\ \A f \in files : f.dir # ScratchDir

C6_Witness ==
    /\ outcome = "raised"
    /\ \E f \in created : f.dir = ScratchDir
    /\ \E i \in DOMAIN task : TaskFailed(i)

\* C7: every intermediate file the export creates lies in the scratch
\* directory of the call.
C7_IntermediatesInScratch ==
    \A f \in created : f.dir = ScratchDir

\* C8: the reported percentages are strictly increasing and each is one of
\* the checkpoints 10, 20, 30, 50, 70, 90, 100 (so each at most once).
C8_ProgressMonotone ==
    \A k \in 1..Len(progress) :
        /\ progress[k] \in Checkpoints
        /\ k > 1 => progress[k - 1] < progress[k]

C8_Witness ==
    progress = <<10, 20, 30, 50, 70, 90, 100>>

\* C9: stages start in the fixed order, each at most once, and a stage
\* starts only when every earlier stage that is not optional has started.
C9_StageOrder ==
    /\ \A j, k \in 1..Len(stages) : j < k => Idx(stages[j]) < Idx(stages[k])
    /\ \A k \in 1..Len(stages) : \A m \in 1..Len(StageOrder) :
          (m < Idx(stages[k]) /\ StageOrder[m] \notin OptionalStages) =>
              \E j \in 1..(k - 1) : stages[j] = StageOrder[m]

C9_Witness ==
    stages = StageOrder

\* C10: once export is past the extraction point, ExtractAudio has run
\* exactly once if the duration exceeds one frame period and not at all if
\* the duration is at most one frame period; it never runs twice.
C10_AudioSkippedIff ==
    /\ Count("ExtractAudio") <= 1
    /\ Started("LoadScenes") =>
          (Count("ExtractAudio") = 0 <=> Duration * fps <= TicksPerSecond)

C10_Witness ==
    /\ Started("LoadScenes")
    /\ Duration * fps = TicksPerSecond
    /\ ~Started("ExtractAudio")

C10_WitnessLong ==
    /\ Started("LoadScenes")
    /\ Duration * fps > TicksPerSecond
    /\ Count("ExtractAudio") = 1

Abs(x) == IF x < 0 THEN 0 - x ELSE x
\* us microseconds is x ticks written with six decimals
WithinHalfMicro(us, x) == 2 * Abs(us * TicksPerSecond - x * 1000000) <= TicksPerSecond
TrimDone == fn.op = "trim_video" /\ fn.state = "done"

\* C11: trim_video picks its mode from the duration alone: for a duration
\* <= 0 it raises and runs no tool; for 0 < duration <= one frame period it
\* asks for one frame, without audio and without -t; otherwise it asks for
\* the range of length end - start from start (both to the microsecond of
\* the command line) and drops the audio exactly when no_audio is set.
C11_TrimModeFromDuration ==
    TrimDone =>
        LET d == fn.end - fn.start IN
        /\ d <= 0 => fn.raised = "ValueError" /\ fn.ran = <<>>
        /\ (d > 0 /\ d * fn.fps <= TicksPerSecond) =>
              /\ fn.raised = "none"
              /\ Len(fn.ran) = 1
              /\ fn.ran[1].cmd.frames = 1
              /\ fn.ran[1].cmd.t = 0
              /\ fn.ran[1].cmd.an
              /\ WithinHalfMicro(fn.ran[1].cmd.ss, fn.start)
        /\ d * fn.fps > TicksPerSecond =>
              /\ fn.raised = "none"
              /\ Len(fn.ran) = 1
              /\ fn.ran[1].cmd.frames = 0
              /\ WithinHalfMicro(fn.ran[1].cmd.ss, fn.start)
              /\ WithinHalfMicro(fn.ran[1].cmd.t, d)
              /\ fn.ran[1].cmd.an = fn.no_audio

C11_Witness ==
    /\ TrimDone
    /\ (fn.end - fn.start) * fn.fps = TicksPerSecond
    /\ fn.ran[1].cmd.frames = 1
    /\ ~fn.no_audio

GetScenesDone == fn.op = "_get_scenes" /\ fn.state = "done"

\* C12: without reset, _get_scenes returns exactly the scenes of the
\* document with not (end_time < rangeStart or start_time > rangeEnd), in
\* document order.
C12_FilterExact ==
    (GetScenesDone /\ ~fn.reset) =>
        fn.result = SelectSeq(fn.doc,
            LAMBDA sc : ~(sc.end_time < fn.start \/ sc.start_time > fn.end))

\* C13: in reset mode with a non-empty result, the first start_time is 0,
\* the last end_time is rangeEnd - rangeStart, and no time is negative.
C13_ResetRebases ==
    (GetScenesDone /\ fn.reset /\ fn.result # <<>>) =>
        /\ fn.result[1].start_time = 0
        /\ fn.result[Len(fn.result)].end_time = fn.end - fn.start
        /\ \A k \in 1..Len(fn.result) :
              fn.result[k].start_time >= 0 /\ fn.result[k].end_time >= 0

C13_Witness ==
    /\ GetScenesDone
    /\ fn.reset
    /\ Len(fn.result) >= 2
    /\ fn.doc[2].start_time < fn.start
    /\ fn.result[2].start_time = 0
    /\ fn.result[2].end_time = fn.end - fn.start

\* out is an even integer nearest to n/d
NearestEven(out, n, d) == out % 2 = 0 /\ Abs(out * d - n) <= d
FillDone == fn.op = "apply_fill" /\ fn.state = "done"
FitDone == fn.op = "apply_fit" /\ fn.state = "done"

\* C14: the fill output width is cropWidth*videoWidth rounded to the nearest
\* even integer (round(x/2)*2), the height likewise, and both are even.
C14_FillDimsEven ==
    FillDone =>
        /\ NearestEven(fn.ran[1].cmd.w, fn.crop_width * fn.video_width, CropSteps)
        /\ NearestEven(fn.ran[1].cmd.h, fn.crop_height * fn.video_height, CropSteps)

C14_Witness ==
    /\ FillDone
    /\ fn.crop_width * fn.video_width = 3 * CropSteps
    /\ fn.ran[1].cmd.w = 4
    /\ fn.ran[1].cmd.h > 2

\* C15: the fit target is height-constrained (source height, source height
\* x destination aspect) when the source aspect exceeds the destination
\* aspect and width-constrained (source width, source width / destination
\* aspect) otherwise, each dimension rounded to the nearest even integer.
C15_FitDims ==
    FitDone =>
        LET aw == fn.aspect_ratio[1]
            ah == fn.aspect_ratio[2]
        IN IF fn.video_width * ah > aw * fn.video_height
           THEN /\ NearestEven(fn.ran[1].cmd.h, fn.video_height, 1)
                /\ NearestEven(fn.ran[1].cmd.w, fn.video_height * aw, ah)
           ELSE /\ NearestEven(fn.ran[1].cmd.w, fn.video_width, 1)
                /\ NearestEven(fn.ran[1].cmd.h, fn.video_width * ah, aw)

C15_Witness ==
    /\ FitDone
    /\ fn.video_width * fn.aspect_ratio[2] > fn.aspect_ratio[1] * fn.video_height
    /\ fn.ran[1].cmd.h = fn.video_height
    /\ fn.ran[1].cmd.w < fn.video_width
    /\ fn.ran[1].cmd.w > 0

C15_WitnessWidth ==
    /\ FitDone
    /\ fn.video_width * fn.aspect_ratio[2] < fn.aspect_ratio[1] * fn.video_height
    /\ fn.ran[1].cmd.w = fn.video_width
    /\ fn.ran[1].cmd.h < fn.video_height

\* C18: when the subtitles document has no "data: " font line, the subtitle
\* attacher's missing-font failure reaches the caller of export.
C18_MissingFontRaises ==
    (req.subtitles = "nofont" /\ Started("AttachSubtitles")) =>
        /\ outcome = "raised"
        /\ error = "MissingFontData"

\* C19: once the Concatenate stage has started, every scene task of the
\* export has terminated.
C19_ConcatAfterJoin ==
    Started("Concatenate") =>
        \A i \in DOMAIN task : task[i] \in {"done", "raised"}

C19_Witness ==
    /\ Started("Concatenate")
    /\ Len(task) >= 2
    /\ \E i \in DOMAIN task : task[i] = "raised"
    /\ \E i \in DOMAIN task : task[i] = "done"

\* files the tools of scene task i were told to write
TaskOutputs(i) == {taskCalls[i][k].cmd.output : k \in 1..Len(taskCalls[i])}
TaskSucceeded(i) ==
    /\ task[i] = "done"
    /\ \A k \in 1..Len(taskCalls[i]) : taskCalls[i][k].exit = 0

BatchEnded == entry # <<>> /\ bpc \in {"returned", "raised"}

\* C16: when a dispatched batch ends, the outcome of every entry has been
\* observed by the batch processor, whichever entries failed.
C16_EveryOutcomeObserved ==
    BatchEnded => observed = DOMAIN entry

\* C17: the exports of two batch entries never share an Exporter, a scene pool
\* or a scratch directory, and an export only creates, writes in and removes
\* directories that are its own.
C17_NoSharedState ==
    /\ \A t \in touched : t.by = t.owner
    /\ \A i, j \in DOMAIN entry :
         i # j =>
           /\ entry[i].exporter # NoObject => entry[i].exporter # entry[j].exporter
           /\ entry[i].pool # NoObject => entry[i].pool # entry[j].pool
           /\ (entry[i].pc \in {"exporting", "rendered"}
                 /\ entry[j].pc \in {"exporting", "rendered"})
                => entry[i].scratch # entry[j].scratch

C17_Witness ==
    /\ Len(entry) >= 2
    /\ \A i \in DOMAIN entry : entry[i].pc = "rendered"
    /\ Cardinality(touched) >= 2

\* every external tool run of the export and of its scene tasks exited 0
AllToolsSucceeded ==
    /\ \A k \in 1..Len(calls) : calls[k].exit = 0
    /\ \A i \in DOMAIN taskCalls :
         \A k \in 1..Len(taskCalls[i]) : taskCalls[i][k].exit = 0
    /\ \A i \in DOMAIN task : task[i] # "raised"

\* C21: the progress sink has received 100 only if every stage of the export
\* succeeded and the output file has been written.
C21_HundredMeansSuccess ==
    (\E k \in 1..Len(progress) : progress[k] = 100) =>
        /\ AllToolsSucceeded
        /\ outputWritten

\* C22: whenever the AttachAudio stage has started, the audio path it was
\* given is the file the ExtractAudio stage of this export produced.
C22_AttachGetsExtractedAudio ==
    Started("AttachAudio") =>
        /\ audio_path = AudioFile
        /\ Started("ExtractAudio")
        /\ AudioFile \in created

\* the re-trim's run of the trim tool, if it has run
ReTrimRuns == {k \in 1..Len(calls) : /\ calls[k].cmd.tool = "trim"
                                     /\ calls[k].cmd.output = IntermediateClip}
ReTrimOffset == Max(req.start - scenes[1].start_time, 0)

\* C23: the re-trim cuts the concatenated stream from offset
\* max(start - firstScene.start_time, 0) over a length of exactly end - start.
C23_ReTrimCutsRequestedRange ==
    \A k \in ReTrimRuns :
        calls[k].cmd = TrimCommand(ConcatenatedClip, IntermediateClip,
                                   ReTrimOffset, ReTrimOffset + Duration,
                                   fps, FALSE)

\* a batch entry that validation must refuse
BadEntry(e) ==
    \/ e.destination_url = ""
    \/ e.start >= e.end
    \/ e.subtitles = "notb64"
BatchErrors == {"error: destination_url", "error: time range", "error: base64"}

\* C24: when some entry of the batch lacks a destination_url, has
\* start >= end or has subtitles that are not base64, process_batch_export
\* returns an error result and no export of any entry is ever started.
C24_ValidationAllOrNothing ==
    (\E k \in DOMAIN job : BadEntry(job[k])) =>
        /\ entry = <<>>
        /\ bpc \in {"validate", "returned"}
        /\ bpc = "returned" => result \in BatchErrors

C24_Witness ==
    /\ Len(job) >= 2
    /\ ~BadEntry(job[1])
    /\ BadEntry(job[2])
    /\ bpc = "returned"
    /\ result \in BatchErrors

====
